---- MODULE Spec2Model ----
(***************************************************************************)
(* Three cascading battery optimisers (day-ahead auction, intraday         *)
(* auction, intraday continuous) of optimizer.py.  Every stage builds a    *)
(* linear model, hands it to the external solver and returns the solved    *)
(* values, a recomputed profit and (stages 2 and 3) the combined           *)
(* positions.                                                              *)
(*                                                                         *)
(* Numbers.  The program works on floats; every energy quantity carries    *)
(* the factor power_cap / 4.  The model keeps all energy quantities        *)
(* multiplied by 4 (soc, energy_cap and volume_limit in constraints,       *)
(* profit), so that power_cap / 4 * x becomes power_cap * x and stays an   *)
(* integer: m.soc[q] here is 4 times the program's soc[q].                 *)
(*                                                                         *)
(* Solver.  solver.solve is external.  It is modelled by what an LP        *)
(* solver promises: some assignment that satisfies every registered        *)
(* constraint and maximises the objective, taken here among the            *)
(* assignments whose positions sit on the variable bounds (0 or 1).        *)
(* An assignment is a record soc, cha, dis, cha_close, dis_close of         *)
(* sequences: cha is cha_daa, cha_ida or cha_idc according to the stage,    *)
(* and stage 1, which has no closing variables, keeps the last two at 0.    *)
(*                                                                         *)
(* Spec runs the three stages one after the other, each on what the one    *)
(* before it returned; SpecCalls calls one stage function with arguments   *)
(* of the caller's choice and lets the solver run into its time limit.     *)
(***************************************************************************)
EXTENDS Integers, Sequences, FiniteSets, TLC

VARIABLES n_cycles, energy_cap, power_cap, pc, call1, call2, call3

vars == <<n_cycles, energy_cap, power_cap, pc, call1, call2, call3>>

\* ------------------------------------------------------------------ grid
\* Hours of the modelled day (24 in the program).
NumHours == 2

\* Quarters per hour; also the divisor of power_cap / 4.
QuartersPerHour == 4

NQ == QuartersPerHour * NumHours

\* model.H, model.Q, model.Q_plus_1
H == 0 .. (NumHours - 1)
Q == 1 .. NQ
Q_plus_1 == 1 .. (NQ + 1)

\* Variable bounds of the position variables: bounds=(0,1).
PositionBounds == {0, 1}

\* Plausible slips in the daily volume: the cycles added instead of multiplied,
\* left out, or counted one too many.
volume_limit_sum == energy_cap + n_cycles

volume_limit_one_cycle == energy_cap

volume_limit_extra_cycle == energy_cap * (n_cycles + 1)

volume_limit == energy_cap * n_cycles

\* ------------------------------------------------------------- helpers
RECURSIVE SumSeq(_)
SumSeq(s) == IF s = <<>> THEN 0 ELSE Head(s) + SumSeq(Tail(s))

Max(S) == CHOOSE x \in S : \A y \in S : y <= x

\* The value None of a variable the solver never assigned, or of a result never
\* produced.
Nil == [none |-> TRUE]

\* -------------------------------------------------------------- stage 1
step1_set_maximum_soc(m, q) == m.soc[q] <= QuartersPerHour * energy_cap

step1_set_minimum_soc(m, q) == m.soc[q] >= 0

step1_set_first_soc_to_0(m) == m.soc[1] = 0

step1_set_last_soc_to_0(m) == m.soc[NQ + 1] = 0

step1_soc_step_constraint(m, q) ==
    m.soc[q + 1] = m.soc[q] + power_cap * m.cha[q] - power_cap * m.dis[q]

step1_charge_cycle_limit(m) ==
    SumSeq([q \in Q |-> m.cha[q] * power_cap]) <= QuartersPerHour * volume_limit

step1_discharge_cycle_limit(m) ==
    SumSeq([q \in Q |-> m.dis[q] * power_cap]) <= QuartersPerHour * volume_limit

cha_daa_quarters_1_2_parity(m, h) == m.cha[4 * h + 1] = m.cha[4 * h + 2]

cha_daa_quarters_2_3_parity(m, h) == m.cha[4 * h + 2] = m.cha[4 * h + 3]

cha_daa_quarters_3_4_parity(m, h) == m.cha[4 * h + 3] = m.cha[4 * h + 4]

\* The three dis_daa rules compare cha_daa, as the source does.
dis_daa_quarters_1_2_parity(m, h) == m.cha[4 * h + 1] = m.cha[4 * h + 2]

dis_daa_quarters_2_3_parity(m, h) == m.cha[4 * h + 2] = m.cha[4 * h + 3]

dis_daa_quarters_3_4_parity(m, h) == m.cha[4 * h + 3] = m.cha[4 * h + 4]

\* Every constraint registered on the stage 1 model.
step1_constraints(m) ==
    /\ \A q \in Q_plus_1 : step1_set_maximum_soc(m, q)
    /\ \A q \in Q_plus_1 : step1_set_minimum_soc(m, q)
    /\ step1_set_first_soc_to_0(m)
    /\ step1_set_last_soc_to_0(m)
    /\ \A q \in Q : step1_soc_step_constraint(m, q)
    /\ step1_charge_cycle_limit(m)
    /\ step1_discharge_cycle_limit(m)
    /\ \A h \in H : cha_daa_quarters_1_2_parity(m, h)
    /\ \A h \in H : cha_daa_quarters_2_3_parity(m, h)
    /\ \A h \in H : cha_daa_quarters_3_4_parity(m, h)
    /\ \A h \in H : dis_daa_quarters_1_2_parity(m, h)
    /\ \A h \in H : dis_daa_quarters_2_3_parity(m, h)
    /\ \A h \in H : dis_daa_quarters_3_4_parity(m, h)

\* model.obj of stage 1 (times 4).
\* The objective with purchases and sales swapped.
step1_obj_swapped(m, price) ==
    SumSeq([q \in Q |-> power_cap * price[q] * (m.cha[q] - m.dis[q])])

step1_obj(m, price) ==
    SumSeq([q \in Q |-> power_cap * price[q] * (m.dis[q] - m.cha[q])])

\* -------------------------------------------------------------- stage 2
\* cha_daa, dis_daa are the arguments step1_cha_daa, step1_dis_daa.
\* The state of charge bounded by the daily volume instead of the capacity.
step2_set_maximum_soc_volume(m, q) == m.soc[q] <= QuartersPerHour * volume_limit

step2_set_maximum_soc(m, q) == m.soc[q] <= QuartersPerHour * energy_cap

step2_set_minimum_soc(m, q) == m.soc[q] >= 0

step2_set_first_soc_to_0(m) == m.soc[1] = 0

step2_set_last_soc_to_0(m) == m.soc[NQ + 1] = 0

step2_soc_step_constraint(m, q, cha_daa, dis_daa) ==
    m.soc[q + 1] = m.soc[q] + power_cap * (m.cha[q] - m.dis[q] + m.cha_close[q]
                                            - m.dis_close[q] + cha_daa[q] - dis_daa[q])

step2_charge_cycle_limit(m, cha_daa) ==
    (SumSeq(cha_daa) + SumSeq([q \in Q |-> m.cha[q]]) - SumSeq([q \in Q |-> m.dis_close[q]]))
        * power_cap <= QuartersPerHour * volume_limit

step2_discharge_cycle_limit(m, dis_daa) ==
    (SumSeq(dis_daa) + SumSeq([q \in Q |-> m.dis[q]]) - SumSeq([q \in Q |-> m.cha_close[q]]))
        * power_cap <= QuartersPerHour * volume_limit

step2_cha_close_logic(m, q, dis_daa) == m.cha_close[q] <= dis_daa[q]

step2_dis_close_logic(m, q, cha_daa) == m.dis_close[q] <= cha_daa[q]

\* The charge rate limit without the position already held.
step2_charge_rate_limit_no_prior(m, q, cha_daa) == m.cha[q] <= 1

step2_charge_rate_limit(m, q, cha_daa) == m.cha[q] + cha_daa[q] <= 1

\* The discharge rate limit reading the charge variable.
step2_discharge_rate_limit_cha(m, q, dis_daa) == m.cha[q] + dis_daa[q] <= 1

step2_discharge_rate_limit(m, q, dis_daa) == m.dis[q] + dis_daa[q] <= 1

\* Every constraint registered on the stage 2 model.
step2_constraints(m, cha_daa, dis_daa) ==
    /\ \A q \in Q_plus_1 : step2_set_maximum_soc(m, q)
    /\ \A q \in Q_plus_1 : step2_set_minimum_soc(m, q)
    /\ step2_set_first_soc_to_0(m)
    /\ step2_set_last_soc_to_0(m)
    /\ \A q \in Q : step2_soc_step_constraint(m, q, cha_daa, dis_daa)
    /\ step2_charge_cycle_limit(m, cha_daa)
    /\ step2_discharge_cycle_limit(m, dis_daa)
    /\ \A q \in Q : step2_cha_close_logic(m, q, dis_daa)
    /\ \A q \in Q : step2_dis_close_logic(m, q, cha_daa)
    /\ \A q \in Q : step2_charge_rate_limit(m, q, cha_daa)
    /\ \A q \in Q : step2_discharge_rate_limit(m, q, dis_daa)

\* The objective of stage 2 with purchases and sales swapped.
step2_obj_swapped(m, price) ==
    SumSeq([q \in Q |-> price[q] * power_cap
                          * (m.cha[q] + m.cha_close[q] - m.dis[q] - m.dis_close[q])])

\* model.obj of stage 2 (times 4).
step2_obj(m, price) ==
    SumSeq([q \in Q |-> price[q] * power_cap
                          * (m.dis[q] + m.dis_close[q] - m.cha[q] - m.cha_close[q])])

\* -------------------------------------------------------------- stage 3
\* cha_daaida, dis_daaida are the arguments step2_cha_daaida, step2_dis_daaida.
step3_set_maximum_soc(m, q) == m.soc[q] <= QuartersPerHour * energy_cap

step3_set_minimum_soc(m, q) == m.soc[q] >= 0

step3_set_first_soc_to_0(m) == m.soc[1] = 0

step3_set_last_soc_to_0(m) == m.soc[NQ + 1] = 0

\* The step of stage 3 without the prior positions.
step3_soc_step_without_prior(m, q, cha_daaida, dis_daaida) ==
    m.soc[q + 1] = m.soc[q]
        + power_cap * (m.cha[q] - m.dis[q] + m.cha_close[q] - m.dis_close[q])

step3_soc_step_constraint(m, q, cha_daaida, dis_daaida) ==
    m.soc[q + 1] = m.soc[q] + power_cap * (m.cha[q] - m.dis[q] + m.cha_close[q]
                                            - m.dis_close[q] + cha_daaida[q] - dis_daaida[q])

\* The rule named charge_cycle_limit sums the discharge side, and the rule named
\* discharge_cycle_limit the charge side, as the source does.
step3_charge_cycle_limit(m, dis_daaida) ==
    (SumSeq(dis_daaida) + SumSeq([q \in Q |-> m.dis[q]]) - SumSeq([q \in Q |-> m.cha_close[q]]))
        * power_cap <= QuartersPerHour * volume_limit

step3_discharge_cycle_limit(m, cha_daaida) ==
    (SumSeq(cha_daaida) + SumSeq([q \in Q |-> m.cha[q]]) - SumSeq([q \in Q |-> m.dis_close[q]]))
        * power_cap <= QuartersPerHour * volume_limit

\* The closing charge held to the bound of the variable, not to the prior.
step3_cha_close_unbound(m, q, dis_daaida) == m.cha_close[q] <= 1

step3_cha_close_logic(m, q, dis_daaida) == m.cha_close[q] <= dis_daaida[q]

step3_dis_close_logic(m, q, cha_daaida) == m.dis_close[q] <= cha_daaida[q]

step3_charge_rate_limit(m, q, cha_daaida) == m.cha[q] + cha_daaida[q] <= 1

step3_discharge_rate_limit(m, q, dis_daaida) == m.dis[q] + dis_daaida[q] <= 1

\* Every constraint registered on the stage 3 model.
step3_constraints(m, cha_daaida, dis_daaida) ==
    /\ \A q \in Q_plus_1 : step3_set_maximum_soc(m, q)
    /\ \A q \in Q_plus_1 : step3_set_minimum_soc(m, q)
    /\ step3_set_first_soc_to_0(m)
    /\ step3_set_last_soc_to_0(m)
    /\ \A q \in Q : step3_soc_step_constraint(m, q, cha_daaida, dis_daaida)
    /\ step3_charge_cycle_limit(m, dis_daaida)
    /\ step3_discharge_cycle_limit(m, cha_daaida)
    /\ \A q \in Q : step3_cha_close_logic(m, q, dis_daaida)
    /\ \A q \in Q : step3_dis_close_logic(m, q, cha_daaida)
    /\ \A q \in Q : step3_charge_rate_limit(m, q, cha_daaida)
    /\ \A q \in Q : step3_discharge_rate_limit(m, q, dis_daaida)

\* model.obj of stage 3 (times 4).
step3_obj(m, price) ==
    SumSeq([q \in Q |-> price[q] * power_cap
                          * (m.dis[q] + m.dis_close[q] - m.cha[q] - m.cha_close[q])])

\* ----------------------------------------------------------- the solver
\* The constraints and the objective of the model a stage hands to the solver.
\* prior_cha, prior_dis are the stage's prior position arguments (none in
\* stage 1).
Constraints(stage, m, prior_cha, prior_dis) ==
    CASE stage = 1 -> step1_constraints(m)
      [] stage = 2 -> step2_constraints(m, prior_cha, prior_dis)
      [] stage = 3 -> step3_constraints(m, prior_cha, prior_dis)

Objective(stage, m, price) ==
    CASE stage = 1 -> step1_obj(m, price)
      [] stage = 2 -> step2_obj(m, price)
      [] stage = 3 -> step3_obj(m, price)

\* The position variables of one quarter, within their bounds; stage 1 declares
\* no closing variables.
Positions(stage) ==
    [cha : PositionBounds, dis : PositionBounds,
     cha_close : IF stage = 1 THEN {0} ELSE PositionBounds,
     dis_close : IF stage = 1 THEN {0} ELSE PositionBounds]

\* The assignment that gives every quarter the positions o.
Uniform(o) ==
    [cha |-> [q \in Q |-> o.cha], dis |-> [q \in Q |-> o.dis],
     cha_close |-> [q \in Q |-> o.cha_close], dis_close |-> [q \in Q |-> o.dis_close]]

\* The positions of quarter q that pass the constraints reading quarter q's
\* positions alone.
Admissible(stage, q, prior_cha, prior_dis) ==
    {o \in Positions(stage) :
        CASE stage = 1 -> TRUE
          [] stage = 2 -> /\ step2_cha_close_logic(Uniform(o), q, prior_dis)
                          /\ step2_dis_close_logic(Uniform(o), q, prior_cha)
                          /\ step2_charge_rate_limit(Uniform(o), q, prior_cha)
                          /\ step2_discharge_rate_limit(Uniform(o), q, prior_dis)
          [] stage = 3 -> /\ step3_cha_close_logic(Uniform(o), q, prior_dis)
                          /\ step3_dis_close_logic(Uniform(o), q, prior_cha)
                          /\ step3_charge_rate_limit(Uniform(o), q, prior_cha)
                          /\ step3_discharge_rate_limit(Uniform(o), q, prior_dis)}

\* The constraints that read nothing beyond quarter k: the search drops a
\* partial assignment as soon as one of them fails.  PositionsOk reads the
\* positions of quarters 1 .. k (the rules that read quarter k alone are in
\* Admissible), SocOk also soc[1 .. k+1].
PositionsOk(stage, m, k) ==
    /\ (stage = 1 /\ k % 4 = 2) => /\ cha_daa_quarters_1_2_parity(m, (k - 2) \div 4)
                                   /\ dis_daa_quarters_1_2_parity(m, (k - 2) \div 4)
    /\ (stage = 1 /\ k % 4 = 3) => /\ cha_daa_quarters_2_3_parity(m, (k - 3) \div 4)
                                   /\ dis_daa_quarters_2_3_parity(m, (k - 3) \div 4)
    /\ (stage = 1 /\ k % 4 = 0) => /\ cha_daa_quarters_3_4_parity(m, (k - 4) \div 4)
                                   /\ dis_daa_quarters_3_4_parity(m, (k - 4) \div 4)

SocOk(stage, m, k, prior_cha, prior_dis) ==
    CASE stage = 1 -> /\ step1_set_maximum_soc(m, k + 1)
                      /\ step1_set_minimum_soc(m, k + 1)
                      /\ k = 0 => step1_set_first_soc_to_0(m)
                      /\ k = NQ => step1_set_last_soc_to_0(m)
                      /\ k > 0 => step1_soc_step_constraint(m, k)
      [] stage = 2 -> /\ step2_set_maximum_soc(m, k + 1)
                      /\ step2_set_minimum_soc(m, k + 1)
                      /\ k = 0 => step2_set_first_soc_to_0(m)
                      /\ k = NQ => step2_set_last_soc_to_0(m)
                      /\ k > 0 => step2_soc_step_constraint(m, k, prior_cha, prior_dis)
      [] stage = 3 -> /\ step3_set_maximum_soc(m, k + 1)
                      /\ step3_set_minimum_soc(m, k + 1)
                      /\ k = 0 => step3_set_first_soc_to_0(m)
                      /\ k = NQ => step3_set_last_soc_to_0(m)
                      /\ k > 0 => step3_soc_step_constraint(m, k, prior_cha, prior_dis)

\* Values tried for soc[q+1] next to soc[q] = prev (soc is an unbounded real
\* variable): the energy of one quarter is a multiple of power_cap.
SocCandidates(prev) == {prev + power_cap * j : j \in -2 .. 2}

\* The assignment that is o in quarter k and 0 elsewhere; the objective is
\* linear, so its objective is what quarter k adds.
Single(o, k) ==
    [soc |-> [q \in Q_plus_1 |-> 0],
     cha |-> [q \in Q |-> IF q = k THEN o.cha ELSE 0],
     dis |-> [q \in Q |-> IF q = k THEN o.dis ELSE 0],
     cha_close |-> [q \in Q |-> IF q = k THEN o.cha_close ELSE 0],
     dis_close |-> [q \in Q |-> IF q = k THEN o.dis_close ELSE 0]]

\* The step of the state of charge that the soc_step_constraint of the stage
\* allows over quarter k under positions o; the rule is linear in soc, so the
\* step does not depend on soc[k].
SocStep(stage, o, k, prior_cha, prior_dis) ==
    CHOOSE d \in SocCandidates(0) :
        LET m == [Single(o, k) EXCEPT
                     !.soc = [q \in Q_plus_1 |-> IF q = k + 1 THEN d ELSE 0]]
        IN  CASE stage = 1 -> step1_soc_step_constraint(m, k)
              [] stage = 2 -> step2_soc_step_constraint(m, k, prior_cha, prior_dis)
              [] stage = 3 -> step3_soc_step_constraint(m, k, prior_cha, prior_dis)

\* All that the constraints beyond quarter k read of a partial assignment: the
\* last state of charge, the four position totals, and in stage 1 the positions
\* of quarter k while its hour is open.
Summary(stage, n, k) ==
    <<n.m.soc[k + 1], n.sums,
      IF stage = 1 /\ k % 4 # 0 THEN <<n.m.cha[k], n.m.dis[k]>> ELSE <<>> >>

\* A partial assignment is dropped when another one with the same summary has a
\* higher objective so far: every completion of the one completes the other
\* to a better assignment, so no optimal assignment is lost.
Undominated(stage, nodes, k) ==
    UNION {UNION {UNION {{n \in N : <<Summary(stage, n, k), n.val>> \in best} :
                         best \in {{sv \in SV : \A other \in SV :
                                                  other[1] = sv[1] => other[2] <= sv[2]}}} :
                  SV \in {{<<Summary(stage, n, k), n.val>> : n \in N}}} :
           N \in {nodes}}

\* The cycle limits read the totals of all quarters.  A partial assignment is
\* dropped when it breaks one of them even with the lightest positions in the
\* quarters to come: nothing opened, everything admissible closed.  With a
\* negative power_cap heavier positions lower the left-hand sides, and nothing
\* is dropped.
CyclesOk(stage, m, rest, prior_cha, prior_dis) ==
    \/ power_cap < 0
    \/ LET lightest == [m EXCEPT !.cha = @ \o rest.open,
                                 !.dis = @ \o rest.open,
                                 !.cha_close = @ \o rest.cha_close,
                                 !.dis_close = @ \o rest.dis_close]
       IN  CASE stage = 1 -> /\ step1_charge_cycle_limit(lightest)
                             /\ step1_discharge_cycle_limit(lightest)
             [] stage = 2 -> /\ step2_charge_cycle_limit(lightest, prior_cha)
                             /\ step2_discharge_cycle_limit(lightest, prior_dis)
             [] stage = 3 -> /\ step3_charge_cycle_limit(lightest, prior_dis)
                             /\ step3_discharge_cycle_limit(lightest, prior_cha)

\* The search nodes of quarters 1 .. k: a partial assignment m, its position
\* totals and its objective so far.  With all = TRUE every partial assignment
\* is kept, otherwise only the undominated ones.
RECURSIVE Search(_, _, _, _, _, _)
Search(stage, k, plan, prior_cha, prior_dis, all) ==
    IF k = 0
    THEN {[m |-> x, sums |-> <<0, 0, 0, 0>>, val |-> 0] :
            x \in {m0 \in {[soc |-> <<s>>, cha |-> <<>>, dis |-> <<>>,
                            cha_close |-> <<>>, dis_close |-> <<>>] :
                              s \in SocCandidates(0)} :
                     SocOk(stage, m0, 0, prior_cha, prior_dis)}}
    ELSE LET extended ==
                 {n \in UNION {{[m |-> [soc |-> Append(p.m.soc,
                                                       p.m.soc[k] + plan.move[k][o].step),
                                        cha |-> Append(p.m.cha, o.cha),
                                        dis |-> Append(p.m.dis, o.dis),
                                        cha_close |-> Append(p.m.cha_close, o.cha_close),
                                        dis_close |-> Append(p.m.dis_close, o.dis_close)],
                                 sums |-> <<p.sums[1] + o.cha, p.sums[2] + o.dis,
                                            p.sums[3] + o.cha_close,
                                            p.sums[4] + o.dis_close>>,
                                 val |-> p.val + plan.move[k][o].gain] :
                                   o \in plan.adm[k]} :
                               p \in Search(stage, k - 1, plan,
                                            prior_cha, prior_dis, all)} :
                    /\ PositionsOk(stage, n.m, k)
                    /\ SocOk(stage, n.m, k, prior_cha, prior_dis)
                    /\ CyclesOk(stage, n.m, plan.rest[k], prior_cha, prior_dis)}
         IN  IF all THEN extended ELSE Undominated(stage, extended, k)

\* What the search needs of every quarter: the admissible positions, what each
\* adds to the objective and to the state of charge, and the lightest
\* positions of the quarters after it.
Plan(stage, price, prior_cha, prior_dis) ==
    UNION {{[adm |-> adm,
             move |-> [q \in Q |-> [o \in adm[q] |->
                          [gain |-> Objective(stage, Single(o, q), price),
                           step |-> SocStep(stage, o, q, prior_cha, prior_dis)]]],
             rest |-> [k \in Q |->
                          [open |-> [q \in 1 .. (NQ - k) |-> 0],
                           cha_close |-> [q \in 1 .. (NQ - k) |->
                                             Max({o.cha_close : o \in adm[k + q]})],
                           dis_close |-> [q \in 1 .. (NQ - k) |->
                                             Max({o.dis_close : o \in adm[k + q]})]]]]} :
           adm \in {a \in {[q \in Q |-> Admissible(stage, q, prior_cha, prior_dis)]} :
                      \A q \in Q : a[q] # {}}}

\* The assignments that satisfy every registered constraint: all of them, or
\* (all = FALSE) at least every one of maximal objective.
Feasible(stage, price, prior_cha, prior_dis, all) ==
    UNION {{m \in {n.m : n \in Search(stage, NQ, plan, prior_cha, prior_dis, all)} :
              Constraints(stage, m, prior_cha, prior_dis)} :
           plan \in Plan(stage, price, prior_cha, prior_dis)}

\* solver.solve(model, timelimit=5): what it leaves in the model's variables.
\* "optimal": a feasible assignment of maximal objective; "infeasible": none
\* exists and the variables keep their value None; "time_limit" (only when
\* timeouts are admitted): the limit struck on a feasible assignment that has
\* no proof of optimality, or before any was found.
Solve(stage, price, prior_cha, prior_dis, timeouts) ==
    UNION {IF F = {}
           THEN {[status |-> "infeasible", model |-> Nil]}
           ELSE UNION {{[status |-> "optimal", model |-> m] :
                           m \in {x \in F : Objective(stage, x, price) = best}}
                       \cup (IF timeouts
                             THEN {[status |-> "time_limit", model |-> m] :
                                     m \in F \cup {Nil}}
                             ELSE {}) :
                       best \in {Max({Objective(stage, m, price) : m \in F})}} :
           F \in {Feasible(stage, price, prior_cha, prior_dis, timeouts)}}

\* ------------------------------------------------------ stage 1, whole call
NoPrior == [q \in Q |-> 0]

\* What one call of step1_optimize_daa leaves behind: the solved model, and
\* either the returned tuple or the exception raised on reading None values.
step1_optimize_daa(daa_price_vector, timeouts) ==
    {IF s.model = Nil
     THEN [price |-> daa_price_vector, solver_calls |-> 1, solver_status |-> s.status,
           model |-> Nil, outcome |-> "raised", ret |-> Nil]
     ELSE LET step1_soc_daa == [q \in Q |-> s.model.soc[q]]
              step1_cha_daa == [q \in Q |-> s.model.cha[q]]
              step1_dis_daa == [q \in Q |-> s.model.dis[q]]
              step1_profit_daa ==
                  SumSeq([q \in Q |-> power_cap * daa_price_vector[q]
                                        * (step1_dis_daa[q] - step1_cha_daa[q])])
          IN  [price |-> daa_price_vector, solver_calls |-> 1, solver_status |-> s.status,
               model |-> s.model, outcome |-> "returned",
               ret |-> [soc |-> step1_soc_daa, cha |-> step1_cha_daa,
                        dis |-> step1_dis_daa, profit |-> step1_profit_daa]] :
     s \in Solve(1, daa_price_vector, NoPrior, NoPrior, timeouts)}

\* ------------------------------------------------- stages 2 and 3, whole call
\* What one call of step2_optimize_ida leaves behind.  A prior vector shorter
\* than the price vector raises IndexError in the soc_step_constraint rule, while
\* the constraints are built and before the solver runs; None values raise
\* TypeError in the profit; a prior vector longer than the price vector raises
\* ValueError in the combined vectors, after the solve.
step2_optimize_ida(ida_price_vector, step1_cha_daa, step1_dis_daa, timeouts) ==
    IF Len(step1_cha_daa) < NQ \/ Len(step1_dis_daa) < NQ
    THEN {[price |-> ida_price_vector, prior_cha |-> step1_cha_daa, prior_dis |-> step1_dis_daa,
           solver_calls |-> 0, solver_status |-> "none",
           model |-> Nil, outcome |-> "raised", ret |-> Nil]}
    ELSE
    {IF s.model = Nil \/ Len(step1_cha_daa) # NQ \/ Len(step1_dis_daa) # NQ
     THEN [price |-> ida_price_vector, prior_cha |-> step1_cha_daa, prior_dis |-> step1_dis_daa,
           solver_calls |-> 1, solver_status |-> s.status,
           model |-> s.model, outcome |-> "raised", ret |-> Nil]
     ELSE LET step2_soc_ida == [q \in Q |-> s.model.soc[q]]
              step2_cha_ida == [q \in Q |-> s.model.cha[q]]
              step2_dis_ida == [q \in Q |-> s.model.dis[q]]
              step2_cha_ida_close == [q \in Q |-> s.model.cha_close[q]]
              step2_dis_ida_close == [q \in Q |-> s.model.dis_close[q]]
              step2_profit_ida ==
                  SumSeq([q \in Q |-> ((step2_dis_ida[q] + step2_dis_ida_close[q])
                                        - (step2_cha_ida[q] + step2_cha_ida_close[q]))
                                       * ida_price_vector[q]]) * power_cap
              step2_cha_daaida ==
                  [q \in Q |-> step1_cha_daa[q] - step2_dis_ida_close[q] + step2_cha_ida[q]]
              step2_dis_daaida ==
                  [q \in Q |-> step1_dis_daa[q] - step2_cha_ida_close[q] + step2_dis_ida[q]]
          IN  [price |-> ida_price_vector, prior_cha |-> step1_cha_daa,
               prior_dis |-> step1_dis_daa,
               solver_calls |-> 1, solver_status |-> s.status,
               model |-> s.model, outcome |-> "returned",
               ret |-> [soc |-> step2_soc_ida, cha |-> step2_cha_ida, dis |-> step2_dis_ida,
                        cha_close |-> step2_cha_ida_close, dis_close |-> step2_dis_ida_close,
                        profit |-> step2_profit_ida,
                        cha_combined |-> step2_cha_daaida,
                        dis_combined |-> step2_dis_daaida]] :
     s \in Solve(2, ida_price_vector, step1_cha_daa, step1_dis_daa, timeouts)}

\* What one call of step3_optimize_idc leaves behind; the same three exceptions.
step3_optimize_idc(idc_price_vector, step2_cha_daaida, step2_dis_daaida, timeouts) ==
    IF Len(step2_cha_daaida) < NQ \/ Len(step2_dis_daaida) < NQ
    THEN {[price |-> idc_price_vector, prior_cha |-> step2_cha_daaida,
           prior_dis |-> step2_dis_daaida,
           solver_calls |-> 0, solver_status |-> "none",
           model |-> Nil, outcome |-> "raised", ret |-> Nil]}
    ELSE
    {IF s.model = Nil \/ Len(step2_cha_daaida) # NQ \/ Len(step2_dis_daaida) # NQ
     THEN [price |-> idc_price_vector, prior_cha |-> step2_cha_daaida,
           prior_dis |-> step2_dis_daaida,
           solver_calls |-> 1, solver_status |-> s.status,
           model |-> s.model, outcome |-> "raised", ret |-> Nil]
     ELSE LET step3_soc_idc == [q \in Q |-> s.model.soc[q]]
              step3_cha_idc == [q \in Q |-> s.model.cha[q]]
              step3_dis_idc == [q \in Q |-> s.model.dis[q]]
              step3_cha_idc_close == [q \in Q |-> s.model.cha_close[q]]
              step3_dis_idc_close == [q \in Q |-> s.model.dis_close[q]]
              step3_profit_idc ==
                  SumSeq([q \in Q |-> ((step3_dis_idc[q] + step3_dis_idc_close[q])
                                        - (step3_cha_idc[q] + step3_cha_idc_close[q]))
                                       * idc_price_vector[q]]) * power_cap
              step3_cha_daaidaidc ==
                  [q \in Q |-> step2_cha_daaida[q] - step3_dis_idc_close[q] + step3_cha_idc[q]]
              step3_dis_daaidaidc ==
                  [q \in Q |-> step2_dis_daaida[q] - step3_cha_idc_close[q] + step3_dis_idc[q]]
          IN  [price |-> idc_price_vector, prior_cha |-> step2_cha_daaida,
               prior_dis |-> step2_dis_daaida,
               solver_calls |-> 1, solver_status |-> s.status,
               model |-> s.model, outcome |-> "returned",
               ret |-> [soc |-> step3_soc_idc, cha |-> step3_cha_idc, dis |-> step3_dis_idc,
                        cha_close |-> step3_cha_idc_close, dis_close |-> step3_dis_idc_close,
                        profit |-> step3_profit_idc,
                        cha_combined |-> step3_cha_daaidaidc,
                        dis_combined |-> step3_dis_daaidaidc]] :
     s \in Solve(3, idc_price_vector, step2_cha_daaida, step2_dis_daaida, timeouts)}

\* --------------------------------------------------------------- inputs
\* The two-hour scenario: 2 in hour 0, 6 in hour 1, 0 afterwards.
TwoHourPrices == [q \in Q |-> IF q <= 4 THEN 2 ELSE IF q <= 8 THEN 6 ELSE 0]

\* A price that moves inside the hour: the four dearest quarters are the last
\* of hour 0 and the first three of hour 1.
QuarterPrices ==
    [q \in Q |-> IF q <= 3 THEN q
                 ELSE IF q = 4 THEN 20
                 ELSE IF q <= 7 THEN 30 - q
                 ELSE IF q = 8 THEN 5 ELSE q - 3]

DaaPrices == {TwoHourPrices, QuarterPrices}

\* Intraday prices.  Rising through the day:
LatePeakPrices == [q \in Q |-> 10 + 3 * q + (q % 3)]

\* rising, with a spike in quarter 2:
EarlySpikePrices == [q \in Q |-> IF q = 2 THEN 50 ELSE 10 + 3 * q]

\* rising, with a dip in quarter 6:
MidDipPrices == [q \in Q |-> IF q = 6 THEN 2 ELSE 10 + 3 * q]

\* rising, but the first quarter of every hour is dear and falling:
ZigZagPrices == [q \in Q |-> IF q % 4 = 1 THEN 40 - q ELSE 10 + 3 * q]

IdaPrices == {LatePeakPrices, ZigZagPrices, MidDipPrices}

IdcPrices == {LatePeakPrices, EarlySpikePrices, MidDipPrices}

\* <<n_cycles, energy_cap, power_cap>>: the two-hour scenario's battery, two
\* batteries too small for an hourly block, and degenerate parameters.
Parameters ==
    {<<1, 4, 4>>, <<1, 1, 4>>, <<2, 1, 4>>,
     <<0, 4, 4>>, <<1, 0, 4>>, <<1, -1, 4>>, <<-1, 4, 4>>}

NotCalled == [solver_calls |-> 0, outcome |-> "none"]

\* ------------------------------------------------------- the three stages
\* The stages run one after the other, each on the vectors the one before it
\* returned.
Init ==
    /\ \E p \in Parameters : n_cycles = p[1] /\ energy_cap = p[2] /\ power_cap = p[3]
    /\ pc = "step1"
    /\ call1 = NotCalled
    /\ call2 = NotCalled
    /\ call3 = NotCalled

Step1 ==
    /\ pc = "step1"
    /\ \E price \in DaaPrices : call1' \in step1_optimize_daa(price, FALSE)
    /\ pc' = IF call1'.outcome = "returned" THEN "step2" ELSE "done"
    /\ UNCHANGED <<n_cycles, energy_cap, power_cap, call2, call3>>

Step2 ==
    /\ pc = "step2"
    /\ \E price \in IdaPrices :
          call2' \in step2_optimize_ida(price, call1.ret.cha, call1.ret.dis, FALSE)
    /\ pc' = IF call2'.outcome = "returned" THEN "step3" ELSE "done"
    /\ UNCHANGED <<n_cycles, energy_cap, power_cap, call1, call3>>

Step3 ==
    /\ pc = "step3"
    /\ \E price \in IdcPrices :
          call3' \in step3_optimize_idc(price, call2.ret.cha_combined,
                                        call2.ret.dis_combined, FALSE)
    /\ pc' = "done"
    /\ UNCHANGED <<n_cycles, energy_cap, power_cap, call1, call2>>

Next == Step1 \/ Step2 \/ Step3

Spec == Init /\ [][Next]_vars

\* ------------------------------------------------- one call, any arguments
\* A caller hands a stage function its arguments directly: prior vectors that
\* are schedules, and prior vectors that are not; and the solver may run into
\* its time limit.
OneTrade ==
    [cha |-> [q \in Q |-> IF q = 2 THEN 1 ELSE 0],
     dis |-> [q \in Q |-> IF q = NQ - 1 THEN 1 ELSE 0]]

CallerPriors ==
    {[cha |-> NoPrior, dis |-> NoPrior],
     OneTrade,
     [OneTrade EXCEPT !.cha[1] = 2],
     [OneTrade EXCEPT !.dis[3] = -1],
     [OneTrade EXCEPT !.cha = SubSeq(@, 1, NQ - 1)],
     [OneTrade EXCEPT !.dis = Append(@, 0)]}

CallParameters == {<<1, 1, 4>>, <<0, 4, 4>>}

InitCalls ==
    /\ \E p \in CallParameters : n_cycles = p[1] /\ energy_cap = p[2] /\ power_cap = p[3]
    /\ pc = "call"
    /\ call1 = NotCalled
    /\ call2 = NotCalled
    /\ call3 = NotCalled

Call1 ==
    /\ pc = "call"
    /\ \E price \in DaaPrices : call1' \in step1_optimize_daa(price, TRUE)
    /\ pc' = "done"
    /\ UNCHANGED <<n_cycles, energy_cap, power_cap, call2, call3>>

Call2 ==
    /\ pc = "call"
    /\ \E price \in IdaPrices, prior \in CallerPriors :
          call2' \in step2_optimize_ida(price, prior.cha, prior.dis, TRUE)
    /\ pc' = "done"
    /\ UNCHANGED <<n_cycles, energy_cap, power_cap, call1, call3>>

Call3 ==
    /\ pc = "call"
    /\ \E price \in IdcPrices, prior \in CallerPriors :
          call3' \in step3_optimize_idc(price, prior.cha, prior.dis, TRUE)
    /\ pc' = "done"
    /\ UNCHANGED <<n_cycles, energy_cap, power_cap, call1, call2>>

NextCalls == Call1 \/ Call2 \/ Call3

SpecCalls == InitCalls /\ [][NextCalls]_vars

\* ------------------------------------------------------------ properties
\* A stage function has been called; it returned its tuple; its model holds
\* the values of a solution.
Called(call) == call.outcome # "none"

Returned(call) == call.outcome = "returned"

Solved(call) == Called(call) /\ call.model # Nil

\* An energy of the program in the model's unit, a quarter of it.
Scaled(x) == QuartersPerHour * x

AllZero(v) == \A q \in DOMAIN v : v[q] = 0

EqualInHour(v, h) == \A i, j \in 1 .. QuartersPerHour : v[4 * h + i] = v[4 * h + j]

\* C1: in every schedule that stage 1 returns, the four charge values of each
\* hour are equal to each other and the four discharge values of each hour are
\* equal to each other.
HourlyBlockEquality ==
    Returned(call1) =>
        \A h \in H : EqualInHour(call1.ret.cha, h) /\ EqualInHour(call1.ret.dis, h)

\* C2: a stage function whose solve stopped at the time limit does not return
\* a schedule and a profit as it does after an optimal solve.
TimeLimitSurfaced(call) ==
    (Called(call) /\ call.solver_status = "time_limit") => ~Returned(call)

TimeLimitReported ==
    /\ TimeLimitSurfaced(call1)
    /\ TimeLimitSurfaced(call2)
    /\ TimeLimitSurfaced(call3)

\* C3: a call of stage 2 or stage 3 with a prior vector that has an entry
\* outside [0, 1], or a length other than the number of quarters, raises at
\* once, and the solver is not invoked for that call.
ValidPrior(v) == Len(v) = NQ /\ \A q \in DOMAIN v : 0 <= v[q] /\ v[q] <= 1

PreconditionReported(call) ==
    (Called(call) /\ ~(ValidPrior(call.prior_cha) /\ ValidPrior(call.prior_dis))) =>
        (call.outcome = "raised" /\ call.solver_calls = 0)

InvalidPriorsRejected ==
    /\ PreconditionReported(call2)
    /\ PreconditionReported(call3)

\* The model of the call is feasible and the call returned a schedule without
\* any trade.
ZeroTrade(call) ==
    /\ call.solver_status = "optimal"
    /\ Returned(call)
    /\ AllZero(call.model.cha) /\ AllZero(call.model.dis)
    /\ AllZero(call.model.cha_close) /\ AllZero(call.model.dis_close)

Infeasible(call) == call.solver_status = "infeasible" /\ ~Returned(call)

TwoHourScenario(cycles) ==
    /\ n_cycles = cycles /\ energy_cap = 4 /\ power_cap = 4
    /\ Called(call1) /\ call1.price = TwoHourPrices

\* C5: in the two-hour scenario with n_cycles = 1 stage 1 returns charge 1 in
\* quarters 1..4, discharge 1 in quarters 5..8 and 0 elsewhere, the state of
\* charge 0,1,2,3,4,3,2,1,0 and 0 afterwards, and the profit 16; no assignment
\* that satisfies the constraints has a higher profit.
TwoHourSchedule ==
    TwoHourScenario(1) =>
        /\ Returned(call1)
        /\ call1.ret.cha = [q \in Q |-> IF q <= 4 THEN 1 ELSE 0]
        /\ call1.ret.dis = [q \in Q |-> IF 5 <= q /\ q <= 8 THEN 1 ELSE 0]
        /\ call1.model.soc = [i \in Q_plus_1 |-> IF i <= 5 THEN Scaled(i - 1)
                                                 ELSE IF i <= 9 THEN Scaled(9 - i)
                                                 ELSE 0]
        /\ call1.ret.soc = [q \in Q |-> call1.model.soc[q]]
        /\ call1.ret.profit = Scaled(16)
        /\ \A m \in Feasible(1, TwoHourPrices, NoPrior, NoPrior, TRUE) :
              SumSeq([q \in Q |-> power_cap * TwoHourPrices[q] * (m.dis[q] - m.cha[q])])
                  <= Scaled(16)

TwoHourScheduleReturned == TwoHourScenario(1) /\ Returned(call1)

\* C6: in the two-hour scenario with n_cycles = 0 stage 1 returns charge 0 and
\* discharge 0 in every quarter, the state of charge 0 at every checkpoint, and
\* the profit 0.
NoCyclesSchedule ==
    TwoHourScenario(0) =>
        /\ Returned(call1)
        /\ AllZero(call1.ret.cha) /\ AllZero(call1.ret.dis)
        /\ AllZero(call1.ret.soc) /\ AllZero(call1.model.soc)
        /\ call1.ret.profit = 0

NoCyclesScheduleReturned == TwoHourScenario(0) /\ Returned(call1)

\* The energy charged and discharged over the day, in quarters of an energy
\* unit: the positions of the stage on top of the prior positions.
ChargedEnergy(m, prior_cha) ==
    power_cap * SumSeq([q \in Q |-> prior_cha[q] - m.dis_close[q] + m.cha[q]])

DischargedEnergy(m, prior_dis) ==
    power_cap * SumSeq([q \in Q |-> prior_dis[q] - m.cha_close[q] + m.dis[q]])

WithinCycleBudget(m, prior_cha, prior_dis) ==
    /\ ChargedEnergy(m, prior_cha) <= Scaled(energy_cap * n_cycles)
    /\ DischargedEnergy(m, prior_dis) <= Scaled(energy_cap * n_cycles)

\* C7: with positive energy_cap, power_cap and n_cycles, in every stage the
\* energy charged over the day and the energy discharged over the day are each
\* at most energy_cap * n_cycles; the priors of stage 1 are 0, those of stage 2
\* the schedule of stage 1, those of stage 3 the combined vectors of stage 2.
CycleBudget ==
    (energy_cap > 0 /\ power_cap > 0 /\ n_cycles > 0) =>
        /\ Solved(call1) => WithinCycleBudget(call1.model, NoPrior, NoPrior)
        /\ Solved(call2) => WithinCycleBudget(call2.model, call1.ret.cha, call1.ret.dis)
        /\ Solved(call3) => WithinCycleBudget(call3.model, call2.ret.cha_combined,
                                              call2.ret.dis_combined)

\* Stage 3 trades and leaves the budget used up.
CycleBudgetUsedUpInStage3 ==
    /\ energy_cap > 0 /\ power_cap > 0 /\ n_cycles > 0
    /\ Returned(call3)
    /\ \E q \in Q : call3.model.cha[q] = 1
    /\ \E q \in Q : call3.model.cha_close[q] = 1
    /\ ChargedEnergy(call3.model, call2.ret.cha_combined) = Scaled(energy_cap * n_cycles)

NetFlow(m, prior_cha, prior_dis, q) ==
    m.cha[q] - m.dis[q] + m.cha_close[q] - m.dis_close[q] + prior_cha[q] - prior_dis[q]

Conserved(m, prior_cha, prior_dis) ==
    \A q \in Q : m.soc[q + 1] - m.soc[q] = power_cap * NetFlow(m, prior_cha, prior_dis, q)

\* C8: in every stage and every quarter q the solved state of charge satisfies
\* soc[q+1] - soc[q] = (power_cap/4) * netflow[q], where the net flow of stage 1
\* is charge - discharge and that of stages 2 and 3 adds the closing positions
\* and the prior positions, stage 3 taking the combined vectors of stage 2 as
\* its priors.
SocConservation ==
    /\ Solved(call1) => Conserved(call1.model, NoPrior, NoPrior)
    /\ Solved(call2) => Conserved(call2.model, call1.ret.cha, call1.ret.dis)
    /\ Solved(call3) => Conserved(call3.model, call2.ret.cha_combined,
                                  call2.ret.dis_combined)

\* Stage 3 closes a position that stage 2 left open, on priors that are not 0.
Stage3ClosesCombinedPosition ==
    /\ Returned(call3)
    /\ \E q \in Q : call2.ret.cha_combined[q] = 1 /\ call3.model.dis_close[q] = 1
    /\ \E q \in Q : call3.model.soc[q + 1] # call3.model.soc[q]

WithinCapacity(m) ==
    /\ \A i \in Q_plus_1 : 0 <= m.soc[i] /\ m.soc[i] <= Scaled(energy_cap)
    /\ m.soc[1] = 0
    /\ m.soc[NQ + 1] = 0

\* C9: in the solved model of every stage the state of charge is at least 0
\* and at most energy_cap at every checkpoint, and 0 at the first and at the
\* last checkpoint.
SocWithinCapacity ==
    /\ Solved(call1) => WithinCapacity(call1.model)
    /\ Solved(call2) => WithinCapacity(call2.model)
    /\ Solved(call3) => WithinCapacity(call3.model)

\* Stage 2 fills the battery to energy_cap with cycles to spare.
Stage2FillsBattery ==
    /\ Returned(call2)
    /\ n_cycles > 1
    /\ \E i \in Q_plus_1 : call2.model.soc[i] = Scaled(energy_cap) /\ energy_cap > 0

ClosingLegal(m, prior_cha, prior_dis) ==
    \A q \in Q : m.cha_close[q] <= prior_dis[q] /\ m.dis_close[q] <= prior_cha[q]

\* C10: in stage 2, in every quarter, charge_close is at most the prior
\* discharge and discharge_close at most the prior charge; the same holds in
\* stage 3 with the combined charge and discharge vectors of stage 2 as the
\* priors.
ClosingLegality ==
    /\ Solved(call2) => ClosingLegal(call2.model, call1.ret.cha, call1.ret.dis)
    /\ Solved(call3) => ClosingLegal(call3.model, call2.ret.cha_combined,
                                     call2.ret.dis_combined)

\* Stage 2 closes a discharge of stage 1, and stage 3 closes a charge that
\* stage 2 left open.
ClosingInStage2AndStage3 ==
    /\ Returned(call2) /\ Returned(call3)
    /\ \E q \in Q : call2.model.cha_close[q] = 1
    /\ \E q \in Q : call3.model.dis_close[q] = 1

\* Quarter q of the prior handed to stage 2 is sold and not bought.
PriorDischargeOnly(call, q) == call.prior_dis[q] = 1 /\ call.prior_cha[q] = 0

\* C11: in stage 2, in every quarter where the prior discharge is 1 and the
\* prior charge is 0, the solution has discharge 0 and discharge_close 0,
\* whatever the intraday price of the quarter.
NoDischargeOnPriorDischarge ==
    Solved(call2) =>
        \A q \in Q : PriorDischargeOnly(call2, q) =>
            call2.model.dis[q] = 0 /\ call2.model.dis_close[q] = 0

\* Stage 2 trades, and the dearest quarter of its price vector is one that
\* the prior has sold and not bought.
DearestQuarterAlreadySold ==
    /\ Returned(call2)
    /\ \E q \in Q : call2.model.dis[q] = 1
    /\ \E q \in Q : /\ PriorDischargeOnly(call2, q)
                    /\ \A r \in Q : call2.price[r] <= call2.price[q]

\* Every entry of the vector v lies between 0 and 1.
UnitVector(v) == \A q \in DOMAIN v : 0 <= v[q] /\ v[q] <= 1

PositiveParameters == n_cycles > 0 /\ energy_cap > 0 /\ power_cap > 0

\* C12: with positive energy_cap, power_cap and n_cycles, every entry of the
\* combined vectors returned by stage 2 and by stage 3 lies in [0, 1], and so
\* does every entry of the prior that stage 2 and stage 3 receive.
CombinedVectorsInUnitRange ==
    PositiveParameters =>
        /\ Called(call2) => UnitVector(call2.prior_cha) /\ UnitVector(call2.prior_dis)
        /\ Returned(call2) => /\ UnitVector(call2.ret.cha_combined)
                              /\ UnitVector(call2.ret.dis_combined)
        /\ Called(call3) => UnitVector(call3.prior_cha) /\ UnitVector(call3.prior_dis)
        /\ Returned(call3) => /\ UnitVector(call3.ret.cha_combined)
                              /\ UnitVector(call3.ret.dis_combined)

\* With positive parameters stage 2 has closed a bought quarter of stage 1 and
\* bought another one, and stage 3 has closed a sold quarter of the combined
\* schedule and sold another one.
CombinedRewrittenInBothStages ==
    /\ PositiveParameters
    /\ Returned(call3)
    /\ \E q \in Q : call2.prior_cha[q] = 1 /\ call2.ret.cha_combined[q] = 0
    /\ \E q \in Q : call2.prior_cha[q] = 0 /\ call2.ret.cha_combined[q] = 1
    /\ \E q \in Q : call3.prior_dis[q] = 1 /\ call3.ret.dis_combined[q] = 0
    /\ \E q \in Q : call3.prior_dis[q] = 0 /\ call3.ret.dis_combined[q] = 1

\* The schedule with all new and closing trades equal to 0: the state of
\* charge follows the prior position alone.
NoNewTrades(prior_cha, prior_dis) ==
    [soc |-> [q \in Q_plus_1 |->
                 power_cap * (SumSeq(SubSeq(prior_cha, 1, q - 1))
                              - SumSeq(SubSeq(prior_dis, 1, q - 1)))],
     cha |-> [q \in Q |-> 0],
     dis |-> [q \in Q |-> 0],
     cha_close |-> [q \in Q |-> 0],
     dis_close |-> [q \in Q |-> 0]]

\* The stage of the call is feasible with the prior it was given, the schedule
\* without new trades being one solution, and the profit of its optimal
\* solution is not negative.
FeasibleWithoutLoss(stage, call) ==
    /\ Constraints(stage, NoNewTrades(call.prior_cha, call.prior_dis),
                   call.prior_cha, call.prior_dis)
    /\ call.solver_status # "infeasible"
    /\ Returned(call)
    /\ call.solver_status = "optimal" => call.ret.profit >= 0

\* C13: when stage 2 is given the schedule of a feasible stage 1 solution, and
\* stage 3 the combined schedule of a feasible stage 2 solution, with the same
\* parameters, the stage is feasible (the schedule without new and closing
\* trades satisfies every constraint) and the profit it returns is not
\* negative, for every price vector.
ChainedStagesFeasible ==
    /\ (Returned(call1) /\ Called(call2)) => FeasibleWithoutLoss(2, call2)
    /\ (Returned(call2) /\ Called(call3)) => FeasibleWithoutLoss(3, call3)

\* Stage 2 finds nothing to gain on a prior that holds a position and returns
\* the profit 0, and stage 3 then trades on that same position with a gain.
IdleStage2ThenGainInStage3 ==
    /\ Returned(call3)
    /\ \E q \in Q : call2.prior_cha[q] = 1
    /\ ZeroTrade(call2)
    /\ call2.ret.profit = 0
    /\ call3.ret.profit > 0
====
